---- MODULE Spec2Model ----
(***************************************************************************)
(* The category and product repositories of the bakery application         *)
(* (app/model/categories_table.py, app/model/products_table.py), called    *)
(* one after the other on one connection.  A table is the set of its rows, *)
(* a Python str is the sequence of its characters, an optional value is a  *)
(* sequence of at most one element (None is the empty one) and a dict is a *)
(* function from the keys it holds.                                        *)
(***************************************************************************)
EXTENDS Integers, Sequences, FiniteSets, TLC

VARIABLES categories, products, call, ret, request, g, txn, connections

(* The state of requests that run statement by statement, each in its own  *)
(* scope: what each request is doing, its scope's g._database and the      *)
(* writes its connection has not committed, and the open connections.      *)
reqvars == <<request, g, txn, connections>>

vars == <<categories, products, call, ret, request, g, txn, connections>>

---------------------------------------------------------------------------
(* Bounds of the model *)

MaxCategoryID == 2
MaxHighProductID == 1

(* CPython keeps one object for each int of -5..256, so that `is` on two   *)
(* equal ints above it compares two objects.                               *)
SmallIntMax == 256

---------------------------------------------------------------------------
(* Values *)

None == <<>>
Some(v) == <<v>>

Get(d, k) == IF k \in DOMAIN d THEN d[k] ELSE None

CategoryIDs == 1..MaxCategoryID
ProductIDs == {1} \cup ((SmallIntMax + 1)..(SmallIntMax + MaxHighProductID))

CategoryNames == {<<"A">>, <<"a">>}
ProductCodes == {<<"P", "1">>, <<"P", "2">>}
ProductNames == {<<"P", "i", "e">>}
Prices == {0}

(* What a caller may pass under each key: nothing (None), or a value, some *)
(* of them invalid.                                                        *)
CategoryNameInputs == {None, Some(<<>>)} \cup {Some(n) : n \in CategoryNames}
ProductCodeInputs == {None, Some(<<>>)} \cup {Some(c) : c \in ProductCodes}
ProductNameInputs == {None, Some(<<>>), Some(<<"P", "i">>)} \cup {Some(n) : n \in ProductNames}
CategoryIDInputs == {None} \cup {Some(i) : i \in 1..(MaxCategoryID + 1)}
PriceInputs == {None, Some(-1)} \cup {Some(p) : p \in Prices}

Restrict(f, K) == [k \in K |-> f[k]]

(* The dicts a caller may pass for the given values: every key present, or *)
(* the keys without a value left out.                                      *)
Dicts(full) == {full, Restrict(full, {k \in DOMAIN full : full[k] # None})}

CategoryData == UNION {Dicts(full) : full \in [category_name : CategoryNameInputs]}
ProductData == UNION {Dicts(full) : full \in [product_code : ProductCodeInputs, product_name : ProductNameInputs, category_id : CategoryIDInputs, price : PriceInputs]}

(* What an operation gives back: a (success, message, data) tuple, a plain *)
(* value (a row or None), or an exception that is no sqlite3.Error.  data  *)
(* is an optional row.                                                     *)
Tuple3(success, message, data) == [kind |-> "tuple", success |-> success, message |-> message, data |-> data]
Value(data) == [kind |-> "value", success |-> FALSE, message |-> "", data |-> data]
Raise(exception) == [kind |-> "raise", success |-> FALSE, message |-> exception, data |-> None]

(* fetchone: the first row of a result, None if it is empty *)
fetchone(rows, rowid) == IF rows = {} THEN None ELSE Some(CHOOSE r \in rows : \A s \in rows : r[rowid] <= s[rowid])

---------------------------------------------------------------------------
(* CategoriesTable, the reads *)

CategoriesTable_get_by_id(rows, category_id) == fetchone({c \in rows : c.CategoryID = category_id}, "CategoryID")

(* A mutant of get_by_name: the query runs on an empty result *)
CategoriesTable_get_by_name_Empty(rows, category_name) == fetchone({c \in rows : FALSE}, "CategoryID")

CategoriesTable_get_by_name(rows, category_name) == fetchone({c \in rows : c.CategoryName = category_name}, "CategoryID")

(* ProductsTable, the reads *)

(* A mutant of get_by_category_id: the query compares the wrong column *)
ProductsTable_get_by_category_id_WrongColumn(rows, category_id) == {p \in rows : p.ProductID = category_id}

ProductsTable_get_by_category_id(rows, category_id) == {p \in rows : p.CategoryID = category_id}

ProductsTable_get_by_id(rows, product_id) == fetchone({p \in rows : p.ProductID = product_id}, "ProductID")

ProductsTable_get_by_code(rows, product_code) == fetchone({p \in rows : p.ProductCode = product_code}, "ProductID")

---------------------------------------------------------------------------
(* The validators: <<valid, message>> *)

(* A mutant of validate_name: the lookup of the name is left out *)
CategoriesTable_validate_name_NoLookup(name) ==
    IF name = None THEN <<FALSE, "Missing category name.">>
    ELSE IF Len(name[1]) = 0 THEN <<FALSE, "Category name cannot be empty.">>
    ELSE <<TRUE, "Category name is valid.">>

CategoriesTable_validate_name(name) ==
    IF name = None THEN <<FALSE, "Missing category name.">>
    ELSE IF Len(name[1]) = 0 THEN <<FALSE, "Category name cannot be empty.">>
    ELSE IF CategoriesTable_get_by_name(categories, name[1]) # None THEN <<FALSE, "Category name exists already.">>
    ELSE <<TRUE, "Category name is valid.">>

ProductsTable_validate_code(code) ==
    IF code = None THEN <<FALSE, "Missing product code.">>
    ELSE IF Len(code[1]) = 0 THEN <<FALSE, "Product code cannot be empty.">>
    ELSE IF ProductsTable_get_by_code(products, code[1]) # None THEN <<FALSE, "Product code exists already.">>
    ELSE <<TRUE, "Product code is valid.">>

(* a is not b, on ints: two different values are two objects, two equal    *)
(* values of the small-int range are one object, and whether two equal     *)
(* values above it are one object (fresh) is the interpreter's choice.     *)
is_not(a, b, fresh) == IF a # b THEN TRUE ELSE IF a <= SmallIntMax THEN FALSE ELSE fresh

IsNotOutcomes(product_id) == IF product_id <= SmallIntMax THEN {TRUE} ELSE BOOLEAN

(* A mutant of validate_updated_code: the lookup of the code is left out *)
ProductsTable_validate_updated_code_NoLookup(code, product_id, fresh) ==
    IF code = None THEN <<FALSE, "Missing product code.">>
    ELSE IF Len(code[1]) = 0 THEN <<FALSE, "Product code cannot be empty.">>
    ELSE <<TRUE, "Product code is valid.">>

ProductsTable_validate_updated_code(code, product_id, fresh) ==
    IF code = None THEN <<FALSE, "Missing product code.">>
    ELSE IF Len(code[1]) = 0 THEN <<FALSE, "Product code cannot be empty.">>
    ELSE LET tmp_product == ProductsTable_get_by_code(products, code[1])
         IN  IF tmp_product # None /\ is_not(tmp_product[1].ProductID, product_id, fresh)
             THEN <<FALSE, "Product code exists already.">>
             ELSE <<TRUE, "Product code is valid.">>

ProductsTable_validate_name(name) ==
    IF name = None THEN <<FALSE, "Missing product name.">>
    ELSE IF Len(name[1]) = 0 THEN <<FALSE, "Product name cannot be empty.">>
    ELSE IF Len(name[1]) < 3 THEN <<FALSE, "Product name must have at least characters.">>
    ELSE <<TRUE, "Product name is valid.">>

(* A mutant of validate_category_id: the lookup of the category is left out *)
ProductsTable_validate_category_id_NoLookup(category_id) ==
    IF category_id = None THEN <<FALSE, "Missing category id.">>
    ELSE <<TRUE, "Category id is valid.">>

ProductsTable_validate_category_id(category_id) ==
    IF category_id = None THEN <<FALSE, "Missing category id.">>
    ELSE IF CategoriesTable_get_by_id(categories, category_id[1]) = None THEN <<FALSE, "Category ID does not exist.">>
    ELSE <<TRUE, "Category id is valid.">>

(* A mutant of validate_price: the comparison is off by one *)
ProductsTable_validate_price_OffByOne(price) ==
    IF price = None THEN <<FALSE, "Missing price.">>
    ELSE IF price[1] < -1 THEN <<FALSE, "Price must be a nonnegative value.">>
    ELSE <<TRUE, "Price is valid.">>

ProductsTable_validate_price(price) ==
    IF price = None THEN <<FALSE, "Missing price.">>
    ELSE IF price[1] < 0 THEN <<FALSE, "Price must be a nonnegative value.">>
    ELSE <<TRUE, "Price is valid.">>

(* The first failing check of a list of checks, or the closing message *)
FirstFailure(checks, valid_message) ==
    IF \E i \in DOMAIN checks : ~checks[i][1]
    THEN <<FALSE, checks[CHOOSE i \in DOMAIN checks : ~checks[i][1] /\ \A j \in 1..(i - 1) : checks[j][1]][2]>>
    ELSE <<TRUE, valid_message>>

ProductsTable_validate_data_for_insert(product_data) ==
    FirstFailure(<<ProductsTable_validate_code(Get(product_data, "product_code")),
                   ProductsTable_validate_name(Get(product_data, "product_name")),
                   ProductsTable_validate_category_id(Get(product_data, "category_id")),
                   ProductsTable_validate_price(Get(product_data, "price"))>>,
                 "The product data is valid.")

(* A mutant of validate_data_for_update: the lookup of the id is left out *)
ProductsTable_validate_data_for_update_NoIdCheck(product_id, product_data, fresh) ==
    FirstFailure(<<ProductsTable_validate_updated_code(Get(product_data, "product_code"), product_id, fresh),
                   ProductsTable_validate_name(Get(product_data, "product_name")),
                   ProductsTable_validate_category_id(Get(product_data, "category_id")),
                   ProductsTable_validate_price(Get(product_data, "price"))>>,
                 "The product data is valid.")

ProductsTable_validate_data_for_update(product_id, product_data, fresh) ==
    IF ProductsTable_get_by_id(products, product_id) = None
    THEN <<FALSE, "There is no product with the specified id.">>
    ELSE FirstFailure(<<ProductsTable_validate_updated_code(Get(product_data, "product_code"), product_id, fresh),
                        ProductsTable_validate_name(Get(product_data, "product_name")),
                        ProductsTable_validate_category_id(Get(product_data, "category_id")),
                        ProductsTable_validate_price(Get(product_data, "price"))>>,
                      "The product data is valid.")

---------------------------------------------------------------------------
(* The storage engine's statements *)

(* The ids the engine may give a new row: one no row of the table has.     *)
(* Which one depends on the rows the table held before.                    *)
GeneratedIDs(ids, used) == ids \ used

InsertCategory(rows, id, category_name) == rows \cup {[CategoryID |-> id, CategoryName |-> category_name]}

DeleteCategory(rows, category_id) == {c \in rows : c.CategoryID # category_id}

ProductRow(id, product_data) == [ProductID |-> id, CategoryID |-> product_data["category_id"][1], ProductCode |-> product_data["product_code"][1], ProductName |-> product_data["product_name"][1], Price |-> product_data["price"][1]]

InsertProduct(rows, id, product_data) == rows \cup {ProductRow(id, product_data)}

(* A mutant of the UPDATE statement: its WHERE clause is left out *)
UpdateProduct_NoWhere(rows, product_id, product_data) == {ProductRow(p.ProductID, product_data) : p \in rows}

UpdateProduct(rows, product_id, product_data) == {IF p.ProductID = product_id THEN ProductRow(product_id, product_data) ELSE p : p \in rows}

DeleteProduct(rows, product_id) == {p \in rows : p.ProductID # product_id}

---------------------------------------------------------------------------
(* The operations *)

NoCall == [op |-> "none", id |-> 0, data |-> <<>>]

Scopes == {1, 2}

(* No request runs: no scope holds a connection and nothing is uncommitted *)
NoRequest == [op |-> "none", id |-> 0, data |-> <<>>, pc |-> 0, done |-> <<>>, used |-> {}, result |-> "none"]

NoRequests ==
    /\ request = [s \in Scopes |-> NoRequest]
    /\ g = [s \in Scopes |-> None]
    /\ txn = [s \in Scopes |-> None]
    /\ connections = {}

Init ==
    /\ categories = {}
    /\ products = {}
    /\ call = NoCall
    /\ ret = Value(None)
    /\ NoRequests

CategoriesTable_insert(category_data) ==
    /\ call = NoCall
    /\ UNCHANGED reqvars
    /\ call' = [op |-> "CategoriesTable.insert", id |-> 0, data |-> category_data]
    /\ UNCHANGED products
    /\ IF "category_name" \notin DOMAIN category_data
       THEN /\ ret' = Raise("KeyError")
            /\ UNCHANGED categories
       ELSE LET category_name == category_data["category_name"]
                v == CategoriesTable_validate_name(category_name)
            IN  IF ~v[1]
                THEN /\ ret' = Tuple3(FALSE, v[2], None)
                     /\ UNCHANGED categories
                ELSE \E id \in GeneratedIDs(CategoryIDs, {c.CategoryID : c \in categories}) :
                        /\ categories' = InsertCategory(categories, id, category_name[1])
                        /\ ret' = Tuple3(TRUE, "The category has been inserted.", CategoriesTable_get_by_name(categories', category_name[1]))

CategoriesTable_delete(category_id) ==
    /\ call = NoCall
    /\ UNCHANGED reqvars
    /\ call' = [op |-> "CategoriesTable.delete", id |-> category_id, data |-> <<>>]
    /\ UNCHANGED products
    /\ LET category == CategoriesTable_get_by_id(categories, category_id)
       IN  IF category = None
           THEN /\ ret' = Value(None)
                /\ UNCHANGED categories
           ELSE IF ProductsTable_get_by_category_id(products, category_id) # {}
           THEN /\ ret' = Tuple3(FALSE, "The category cannot be deleted since it contains products.", None)
                /\ UNCHANGED categories
           ELSE /\ categories' = DeleteCategory(categories, category_id)
                /\ ret' = Tuple3(TRUE, "The category has been deleted.", category)

ProductsTable_insert(product_data) ==
    /\ call = NoCall
    /\ UNCHANGED reqvars
    /\ call' = [op |-> "ProductsTable.insert", id |-> 0, data |-> product_data]
    /\ UNCHANGED categories
    /\ LET v == ProductsTable_validate_data_for_insert(product_data)
       IN  IF ~v[1]
           THEN /\ ret' = Tuple3(FALSE, v[2], None)
                /\ UNCHANGED products
           ELSE \E id \in GeneratedIDs(ProductIDs, {p.ProductID : p \in products}) :
                   /\ products' = InsertProduct(products, id, product_data)
                   /\ ret' = Tuple3(TRUE, "The product has been inserted", ProductsTable_get_by_code(products', product_data["product_code"][1]))

ProductsTable_update(product_id, product_data, fresh) ==
    /\ call = NoCall
    /\ UNCHANGED reqvars
    /\ call' = [op |-> "ProductsTable.update", id |-> product_id, data |-> product_data]
    /\ UNCHANGED categories
    /\ LET v == ProductsTable_validate_data_for_update(product_id, product_data, fresh)
       IN  IF ~v[1]
           THEN /\ ret' = Tuple3(FALSE, v[2], None)
                /\ UNCHANGED products
           ELSE /\ products' = UpdateProduct(products, product_id, product_data)
                /\ ret' = Tuple3(TRUE, "The product has been updated.", ProductsTable_get_by_code(products', product_data["product_code"][1]))

ProductsTable_delete(product_id) ==
    /\ call = NoCall
    /\ UNCHANGED reqvars
    /\ call' = [op |-> "ProductsTable.delete", id |-> product_id, data |-> <<>>]
    /\ UNCHANGED categories
    /\ LET product == ProductsTable_get_by_id(products, product_id)
       IN  IF product = None
           THEN /\ ret' = Value(None)
                /\ UNCHANGED products
           ELSE /\ products' = DeleteProduct(products, product_id)
                /\ ret' = Value(product)

(* The request ends: its result has been used and its scope is torn down. *)
close_connection ==
    /\ call # NoCall
    /\ call' = NoCall
    /\ ret' = Value(None)
    /\ UNCHANGED <<categories, products>>
    /\ UNCHANGED reqvars

Next ==
    \/ \E category_data \in CategoryData : CategoriesTable_insert(category_data)
    \/ \E category_id \in 1..(MaxCategoryID + 1) : CategoriesTable_delete(category_id)
    \/ \E product_data \in ProductData : ProductsTable_insert(product_data)
    \/ \E product_id \in ProductIDs, product_data \in ProductData : \E fresh \in IsNotOutcomes(product_id) : ProductsTable_update(product_id, product_data, fresh)
    \/ \E product_id \in ProductIDs : ProductsTable_delete(product_id)
    \/ close_connection

Spec == Init /\ [][Next]_vars

---------------------------------------------------------------------------
(* What the specification says of a product's fields, stated on the tables *)
(* and the data alone                                                      *)

Referenced(category_id) == \E p \in products : p.CategoryID = category_id

CodeUsed(code) == \E p \in products : p.ProductCode = code

CodeUsedByAnother(code, product_id) == \E p \in products : p.ProductCode = code /\ p.ProductID # product_id

NameOK(product_data) == Get(product_data, "product_name") # None /\ Len(product_data["product_name"][1]) >= 3

CategoryOK(product_data) == Get(product_data, "category_id") # None /\ \E c \in categories : c.CategoryID = product_data["category_id"][1]

PriceOK(product_data) == Get(product_data, "price") # None /\ product_data["price"][1] >= 0

CodeGiven(product_data) == Get(product_data, "product_code") # None /\ Len(product_data["product_code"][1]) > 0

---------------------------------------------------------------------------
(* C1: no two rows of the categories table have the same CategoryName, in  *)
(* every state reached by category inserts and deletes.                    *)
C1_CategoryNameUnique == \A c1, c2 \in categories : c1.CategoryName = c2.CategoryName => c1 = c2

(* Two categories are stored, the second one just inserted. *)
C1_Witness ==
    /\ call.op = "CategoriesTable.insert"
    /\ ret.success
    /\ Cardinality(categories) = 2

(* C2: no two rows of the products table have the same ProductCode, in     *)
(* every state reached by product inserts, updates and deletes; an update  *)
(* never gives a product the code of another product.                      *)
C2_ProductCodeUnique == \A p1, p2 \in products : p1.ProductCode = p2.ProductCode => p1 = p2

(* An update asked for the code of another product and was refused. *)
C2_Witness ==
    /\ call.op = "ProductsTable.update"
    /\ ret = Tuple3(FALSE, "Product code exists already.", None)
    /\ CodeUsedByAnother(call.data["product_code"][1], call.id)
    /\ \E p \in products : p.ProductID = call.id

(* C3: every product row's CategoryID is the CategoryID of a category row. *)
C3_ReferentialIntegrity == \A p \in products : \E c \in categories : c.CategoryID = p.CategoryID

(* A category has been deleted while another one holds products. *)
C3_Witness ==
    /\ call.op = "CategoriesTable.delete"
    /\ ret.success
    /\ products # {}

(* C4: CategoriesTable.delete of a category that a product references      *)
(* returns success False with its message and leaves both tables as they   *)
(* were.                                                                   *)
C4_DeleteReferencedCategoryFails ==
    [][(call'.op = "CategoriesTable.delete" /\ Referenced(call'.id))
        => /\ ret'.kind = "tuple"
           /\ ~ret'.success
           /\ ret'.message = "The category cannot be deleted since it contains products."
           /\ ret'.data = None
           /\ categories' = categories
           /\ products' = products]_vars

(* The delete of a referenced category has been refused. *)
C4_Witness ==
    /\ call.op = "CategoriesTable.delete"
    /\ Referenced(call.id)
    /\ ret.kind = "tuple"
    /\ ~ret.success

(* C5: update(p.ProductID, data) of an existing product p with otherwise   *)
(* valid data succeeds when data holds p's own code, whatever p's id, and  *)
(* fails with "Product code exists already." when it holds the code of     *)
(* another product.                                                        *)
C5_UpdateCodeAgainstOthersOnly ==
    [][(/\ call'.op = "ProductsTable.update"
        /\ \E p \in products : p.ProductID = call'.id
        /\ CodeGiven(call'.data) /\ NameOK(call'.data) /\ CategoryOK(call'.data) /\ PriceOK(call'.data)
        /\ CodeUsed(call'.data["product_code"][1]))
        => IF CodeUsedByAnother(call'.data["product_code"][1], call'.id)
           THEN ret' = Tuple3(FALSE, "Product code exists already.", None)
           ELSE ret'.success]_vars

(* C6: CategoriesTable.insert with the exact name of a category row        *)
(* returns (False, "Category name exists already.", None) and the table    *)
(* keeps its number of rows.                                               *)
C6_InsertExistingCategoryName ==
    [][(/\ call'.op = "CategoriesTable.insert"
        /\ Get(call'.data, "category_name") # None
        /\ \E c \in categories : c.CategoryName = call'.data["category_name"][1])
        => /\ ret' = Tuple3(FALSE, "Category name exists already.", None)
           /\ Cardinality(categories') = Cardinality(categories)]_vars

(* An insert with the name of a stored category has been refused. *)
C6_Witness ==
    /\ call.op = "CategoriesTable.insert"
    /\ ret = Tuple3(FALSE, "Category name exists already.", None)
    /\ \E c \in categories : c.CategoryName = call.data["category_name"][1]

(* C7: ProductsTable.insert with price -1 fails and adds no row; when the  *)
(* code, the name and the category id are valid the message is "Price must *)
(* be a nonnegative value.".                                               *)
C7_InsertNegativePrice ==
    [][(call'.op = "ProductsTable.insert" /\ Get(call'.data, "price") = Some(-1))
        => /\ ret'.kind = "tuple"
           /\ ~ret'.success
           /\ products' = products
           /\ (/\ CodeGiven(call'.data)
               /\ ~CodeUsed(call'.data["product_code"][1])
               /\ NameOK(call'.data)
               /\ CategoryOK(call'.data))
              => ret' = Tuple3(FALSE, "Price must be a nonnegative value.", None)]_vars

(* An insert whose only invalid field is the price -1 has been refused. *)
C7_Witness ==
    /\ call.op = "ProductsTable.insert"
    /\ Get(call.data, "price") = Some(-1)
    /\ CodeGiven(call.data) /\ ~CodeUsed(call.data["product_code"][1])
    /\ NameOK(call.data) /\ CategoryOK(call.data)
    /\ ret = Tuple3(FALSE, "Price must be a nonnegative value.", None)

(* The messages of each field's check *)
CodeMessages == {"Missing product code.", "Product code cannot be empty.", "Product code exists already."}

NameMessages == {"Missing product name.", "Product name cannot be empty.", "Product name must have at least characters."}

CategoryMessages == {"Missing category id.", "Category ID does not exist."}

PriceMessages == {"Missing price.", "Price must be a nonnegative value."}

(* The messages the first invalid field of the order code, name,           *)
(* category_id, price may give; none when every field is valid.  The code  *)
(* is invalid when missing, empty or used by a product other than          *)
(* product_id (0 for an insert, which no product has).                     *)
FirstInvalidMessages(product_id, product_data) ==
    IF ~CodeGiven(product_data) \/ CodeUsedByAnother(product_data["product_code"][1], product_id) THEN CodeMessages
    ELSE IF ~NameOK(product_data) THEN NameMessages
    ELSE IF ~CategoryOK(product_data) THEN CategoryMessages
    ELSE IF ~PriceOK(product_data) THEN PriceMessages
    ELSE {}

(* C8: the validation of an insert, and of an update of a stored product,  *)
(* fails with the message of the first invalid field in the order code,    *)
(* name, category_id, price, and passes when no field is invalid (a name   *)
(* of length 3 and the price 0 are valid).                                 *)
C8_ValidationOrder ==
    [][(\/ call'.op = "ProductsTable.insert"
        \/ call'.op = "ProductsTable.update" /\ \E p \in products : p.ProductID = call'.id)
        => /\ ret'.kind = "tuple"
           /\ IF FirstInvalidMessages(call'.id, call'.data) = {}
              THEN ret'.success
              ELSE ~ret'.success /\ ret'.message \in FirstInvalidMessages(call'.id, call'.data)]_vars

(* C9: CategoriesTable.insert with data whose category name is absent,     *)
(* None or empty returns (False, message, None), raises nothing and leaves *)
(* the categories table as it was.                                         *)
C9_InsertCategoryWithoutName ==
    [][(/\ call'.op = "CategoriesTable.insert"
        /\ Get(call'.data, "category_name") \in {None, Some(<<>>)})
        => /\ ret'.kind = "tuple"
           /\ ~ret'.success
           /\ ret'.data = None
           /\ categories' = categories]_vars

(* The rows other than the one with the given id *)
OtherProducts(rows, product_id) == {p \in rows : p.ProductID # product_id}

(* row holds the values of product_data *)
Carries(row, product_data) ==
    /\ row.ProductCode = product_data["product_code"][1]
    /\ row.ProductName = product_data["product_name"][1]
    /\ row.CategoryID = product_data["category_id"][1]
    /\ row.Price = product_data["price"][1]

(* C10: a successful product insert returns the stored row it added; a     *)
(* successful update returns the stored row of the id passed in, holding   *)
(* the new values, the other rows being as before; delete of a stored id   *)
(* removes that row alone and returns it, and delete of any other id       *)
(* returns None and leaves the table as it was.                            *)
C10_ReturnedRecords ==
    [][/\ (call'.op = "ProductsTable.insert" /\ ret'.success)
          => /\ ret'.data # None
             /\ ret'.data[1] \notin products
             /\ products' = products \cup {ret'.data[1]}
             /\ Carries(ret'.data[1], call'.data)
       /\ (call'.op = "ProductsTable.update" /\ ret'.success)
          => /\ ret'.data # None
             /\ ret'.data[1] \in products'
             /\ ret'.data[1].ProductID = call'.id
             /\ Carries(ret'.data[1], call'.data)
             /\ OtherProducts(products', call'.id) = OtherProducts(products, call'.id)
             /\ Cardinality(products') = Cardinality(products)
       /\ (call'.op = "ProductsTable.delete")
          => IF \E p \in products : p.ProductID = call'.id
             THEN /\ ret'.kind = "value"
                  /\ ret'.data # None
                  /\ ret'.data[1] \in products
                  /\ ret'.data[1].ProductID = call'.id
                  /\ products' = products \ {ret'.data[1]}
             ELSE /\ ret' = Value(None)
                  /\ products' = products]_vars

(* An update has given one of two stored products another code. *)
C10_Witness ==
    /\ call.op = "ProductsTable.update"
    /\ ret.success
    /\ Cardinality(products) = 2
    /\ \A p \in products : p.ProductID = call.id => p.ProductCode = <<"P", "2">>

(* C15: ProductsTable.update with an id no product row has returns         *)
(* (False, "There is no product with the specified id.", None) whatever    *)
(* the data, invalid fields included, and the products table stays as it   *)
(* was; every update that fails leaves the products table as it was.       *)
C15_UpdateUnknownId ==
    [][/\ (call'.op = "ProductsTable.update" /\ ~\E p \in products : p.ProductID = call'.id)
          => /\ ret' = Tuple3(FALSE, "There is no product with the specified id.", None)
             /\ products' = products
       /\ (call'.op = "ProductsTable.update" /\ ~ret'.success)
          => products' = products]_vars

(* An update of an id that is not stored, with data that holds no code,    *)
(* has been refused for its id while other products are stored.            *)
C15_Witness ==
    /\ call.op = "ProductsTable.update"
    /\ ~\E p \in products : p.ProductID = call.id
    /\ products # {}
    /\ Get(call.data, "product_code") = None
    /\ ret = Tuple3(FALSE, "There is no product with the specified id.", None)

---------------------------------------------------------------------------
(* ProductsTable.validate_price_string, on strings of bounded length       *)

MaxPriceLen == 4

Digits == {"0", "1", "2", "3", "4", "5", "6", "7", "8", "9"}

(* The characters the strings are made of *)
PriceChars == {"1", ".", "-", "\n"}

PriceStrings == UNION {[1..n -> PriceChars] : n \in 0..MaxPriceLen}

PriceStringInputs == {None} \cup {Some(s) : s \in PriceStrings}

(* \d* up to the end *)
MatchesDigits(s) == \A i \in 1..Len(s) : s[i] \in Digits

(* \d*[.]\d\d up to the end *)
MatchesDecimal(s) ==
    /\ Len(s) >= 3
    /\ s[Len(s) - 2] = "."
    /\ s[Len(s) - 1] \in Digits
    /\ s[Len(s)] \in Digits
    /\ \A i \in 1..(Len(s) - 3) : s[i] \in Digits

(* Where $ matches: at the end of the string, and before a newline that    *)
(* ends it                                                                 *)
DollarPositions(s) == {Len(s)} \cup (IF Len(s) > 0 /\ s[Len(s)] = "\n" THEN {Len(s) - 1} ELSE {})

(* re.search("^\d*[.]\d\d$|^\d*$", s) is not None *)
re_search(s) == \E e \in DollarPositions(s) : MatchesDecimal(SubSeq(s, 1, e)) \/ MatchesDigits(SubSeq(s, 1, e))

Tuple2(valid, message) == [kind |-> "tuple", success |-> valid, message |-> message, data |-> None]

ProductsTable_validate_price_string(price) ==
    IF price = None THEN Tuple2(FALSE, "Missing price.")
    ELSE IF Len(price[1]) = 0 THEN Tuple2(FALSE, "Price cannot be empty.")
    ELSE IF ~re_search(price[1]) THEN Tuple2(FALSE, "Price must be a nonnegative value with two decimal places.")
    ELSE Tuple2(TRUE, "Price is valid.")

validate_price_string(price) ==
    /\ call' = [op |-> "ProductsTable.validate_price_string", id |-> 0, data |-> price]
    /\ ret' = ProductsTable_validate_price_string(price)
    /\ UNCHANGED <<categories, products>>
    /\ UNCHANGED reqvars

NextPrice == \E price \in PriceStringInputs : validate_price_string(price)

SpecPrice == Init /\ [][NextPrice]_vars

(* The strings the specification accepts: digits only, or digits, a '.'    *)
(* and two digits; never the empty one                                     *)
DigitsOnly(s) == \A i \in 1..Len(s) : s[i] \in Digits

TwoDecimals(s) == Len(s) >= 3 /\ s[Len(s) - 2] = "." /\ DigitsOnly(SubSeq(s, 1, Len(s) - 3)) /\ DigitsOnly(SubSeq(s, Len(s) - 1, Len(s)))

(* C13: validate_price_string accepts exactly the non-empty strings that   *)
(* are digits only, or digits followed by '.' and two digits; None and ""  *)
(* fail with the missing or the empty message, and every other string      *)
(* fails with the two-decimal-places message.                              *)
C13_PriceStringAccepted ==
    call.op = "ProductsTable.validate_price_string" =>
        IF call.data = None THEN ret = Tuple2(FALSE, "Missing price.")
        ELSE IF call.data[1] = <<>> THEN ret = Tuple2(FALSE, "Price cannot be empty.")
        ELSE IF DigitsOnly(call.data[1]) \/ TwoDecimals(call.data[1]) THEN ret.success
        ELSE ret = Tuple2(FALSE, "Price must be a nonnegative value with two decimal places.")

---------------------------------------------------------------------------
(* Requests that run statement by statement.  Each request runs one        *)
(* operation in its own scope, on the connection get_db gives it; a step   *)
(* is one statement on the database with the checks that lead to it.       *)
(* categories and products are the committed tables; a connection that has *)
(* written sees its own tables (txn) until it commits.                     *)

MaxRequestCategoryID == 1
MaxRequestProductID == 1
MaxConnections == 2

RequestCategoryIDs == 1..MaxRequestCategoryID
RequestProductIDs == 1..MaxRequestProductID
ConnectionIDs == 1..MaxConnections

RequestCategoryData == {[category_name |-> None], [category_name |-> Some(<<"A">>)]}
RequestProductData == {[product_code |-> Some(<<"P", "1">>), product_name |-> Some(<<"P", "i", "e">>), category_id |-> Some(c), price |-> Some(0)] : c \in RequestCategoryIDs}

(* A mutant of Statements: the operations end without db.commit() *)
Statements_NoCommit(op) ==
    CASE op = "CategoriesTable.insert" -> <<"validate_name", "INSERT", "get_by_name">>
      [] op = "CategoriesTable.delete" -> <<"get_by_id", "get_by_category_id", "DELETE">>
      [] op = "ProductsTable.insert" -> <<"validate_code", "validate_category_id", "INSERT", "get_by_code">>
      [] op = "ProductsTable.update" -> <<"get_by_id", "validate_updated_code", "validate_category_id", "UPDATE", "get_by_code">>
      [] op = "ProductsTable.delete" -> <<"get_by_id", "DELETE">>
      [] OTHER -> <<>>

(* The statements an operation runs on the database, in order *)
Statements(op) ==
    CASE op = "CategoriesTable.insert" -> <<"validate_name", "INSERT", "get_by_name", "commit">>
      [] op = "CategoriesTable.delete" -> <<"get_by_id", "get_by_category_id", "DELETE", "commit">>
      [] op = "ProductsTable.insert" -> <<"validate_code", "validate_category_id", "INSERT", "get_by_code", "commit">>
      [] op = "ProductsTable.update" -> <<"get_by_id", "validate_updated_code", "validate_category_id", "UPDATE", "get_by_code", "commit">>
      [] op = "ProductsTable.delete" -> <<"get_by_id", "DELETE", "commit">>
      [] OTHER -> <<>>

Checks == {"validate_name", "validate_code", "validate_updated_code", "validate_category_id", "get_by_id", "get_by_category_id"}
Writes == {"INSERT", "UPDATE", "DELETE"}
ReadBacks == {"get_by_name", "get_by_code"}

(* The statement a running request is at; "return" after the last one *)
Statement(r) == IF r.pc \in DOMAIN Statements(r.op) THEN Statements(r.op)[r.pc] ELSE "return"

Running(r) == r.op # "none" /\ r.result = "none"

(* Whether a check gets as far as its SELECT *)
Reaches(stmt, data) ==
    CASE stmt = "validate_name" -> data["category_name"] # None /\ Len(data["category_name"][1]) > 0
      [] stmt \in {"validate_code", "validate_updated_code"} -> Get(data, "product_code") # None /\ Len(data["product_code"][1]) > 0
      [] stmt = "validate_category_id" -> ProductsTable_validate_name(Get(data, "product_name"))[1] /\ Get(data, "category_id") # None
      [] OTHER -> TRUE

(* Whether the operation goes on after a check (it returns otherwise) *)
Passes(op, stmt, id, data, fresh) ==
    CASE stmt = "validate_name" -> CategoriesTable_validate_name(data["category_name"])[1]
      [] stmt = "validate_code" -> ProductsTable_validate_code(Get(data, "product_code"))[1]
      [] stmt = "validate_updated_code" -> ProductsTable_validate_updated_code(Get(data, "product_code"), id, fresh)[1]
      [] stmt = "validate_category_id" -> ProductsTable_validate_name(Get(data, "product_name"))[1] /\ ProductsTable_validate_category_id(Get(data, "category_id"))[1]
      [] stmt = "get_by_id" /\ op = "CategoriesTable.delete" -> CategoriesTable_get_by_id(categories, id) # None
      [] stmt = "get_by_id" /\ op # "CategoriesTable.delete" -> ProductsTable_get_by_id(products, id) # None
      [] stmt = "get_by_category_id" -> ProductsTable_get_by_category_id(products, id) = {}

(* A mutant of get_db: the connection of the scope is not looked up *)
get_db_AlwaysConnects(db, fresh) == Some(fresh)

(* get_db: g._database after the call, which is the connection returned;   *)
(* fresh is the connection sqlite3.connect would open.                     *)
get_db(db, fresh) == IF db = None THEN Some(fresh) ELSE db

(* The connection sqlite3.connect opens: one that is not open yet (0 when   *)
(* the model has none left)                                                *)
Connect ==
    LET closed == ConnectionIDs \ connections
    IN  IF closed = {} THEN 0 ELSE CHOOSE c \in closed : \A d \in closed : c <= d

(* A statement of scope s runs on the connection get_db returns *)
UseConnection(s) ==
    /\ g' = [g EXCEPT ![s] = get_db(g[s], Connect)]
    /\ g'[s][1] \in ConnectionIDs
    /\ connections' = connections \cup {g'[s][1]}

Executed(s, kind, pc, result) == [request EXCEPT ![s].done = Append(@, kind), ![s].used = @ \cup {g'[s][1]}, ![s].pc = pc, ![s].result = result]

(* The tables a write statement leaves in the connection's transaction *)
Written(op, id, data, newid) ==
    CASE op = "CategoriesTable.insert" -> [categories |-> InsertCategory(categories, newid, data["category_name"][1]), products |-> products]
      [] op = "CategoriesTable.delete" -> [categories |-> DeleteCategory(categories, id), products |-> products]
      [] op = "ProductsTable.insert" -> [categories |-> categories, products |-> InsertProduct(products, newid, data)]
      [] op = "ProductsTable.update" -> [categories |-> categories, products |-> UpdateProduct(products, id, data)]
      [] op = "ProductsTable.delete" -> [categories |-> categories, products |-> DeleteProduct(products, id)]

NewIDs(op) ==
    CASE op = "CategoriesTable.insert" -> GeneratedIDs(RequestCategoryIDs, {c.CategoryID : c \in categories})
      [] op = "ProductsTable.insert" -> GeneratedIDs(RequestProductIDs, {p.ProductID : p \in products})
      [] OTHER -> {0}

(* A request enters a scope and calls an operation *)
Begin(s, op, id, data) ==
    /\ request[s] = NoRequest
    /\ request' = [request EXCEPT ![s] = [op |-> op, id |-> id, data |-> data, pc |-> 1, done |-> <<>>, used |-> {}, result |-> "none"]]
    /\ UNCHANGED <<categories, products, call, ret, g, txn, connections>>

(* A check before the write: its SELECT on the committed tables, after     *)
(* which the operation goes on or returns; a check that fails before its   *)
(* SELECT returns without a statement.                                     *)
Select(s) ==
    LET r == request[s]
    IN  /\ Running(r)
        /\ Statement(r) \in Checks
        /\ IF ~Reaches(Statement(r), r.data)
           THEN /\ request' = [request EXCEPT ![s].result = "returned"]
                /\ UNCHANGED <<g, connections>>
           ELSE /\ UseConnection(s)
                /\ \E fresh \in IsNotOutcomes(r.id) :
                      request' = Executed(s, "select", r.pc + 1, IF Passes(r.op, Statement(r), r.id, r.data, fresh) THEN "none" ELSE "returned")
        /\ UNCHANGED <<categories, products, call, ret, txn>>

PriceChecked(r) == r.op \in {"ProductsTable.insert", "ProductsTable.update"} => ProductsTable_validate_price(Get(r.data, "price"))[1]

(* The write statement: it opens the connection's transaction, which no    *)
(* other connection may have open.                                         *)
Write(s) ==
    LET r == request[s]
    IN  /\ Running(r)
        /\ Statement(r) \in Writes
        /\ IF ~PriceChecked(r)
           THEN /\ request' = [request EXCEPT ![s].result = "returned"]
                /\ UNCHANGED <<g, connections, txn>>
           ELSE /\ \A t \in Scopes : txn[t] = None
                /\ UseConnection(s)
                /\ \E newid \in NewIDs(r.op) : txn' = [txn EXCEPT ![s] = Some(Written(r.op, r.id, r.data, newid))]
                /\ request' = Executed(s, "write", r.pc + 1, "none")
        /\ UNCHANGED <<categories, products, call, ret>>

(* The write statement while another connection has its transaction open:  *)
(* the database is locked, execute raises sqlite3.Error and the operation  *)
(* aborts with status 500.                                                 *)
WriteLocked(s) ==
    LET r == request[s]
    IN  /\ Running(r)
        /\ Statement(r) \in Writes
        /\ PriceChecked(r)
        /\ \E t \in Scopes \ {s} : txn[t] # None
        /\ UseConnection(s)
        /\ request' = [request EXCEPT ![s].used = @ \cup {g'[s][1]}, ![s].result = "aborted"]
        /\ UNCHANGED <<categories, products, call, ret, txn>>

(* The SELECT that reads the written row back, in the transaction *)
ReadBack(s) ==
    LET r == request[s]
    IN  /\ Running(r)
        /\ Statement(r) \in ReadBacks
        /\ UseConnection(s)
        /\ request' = Executed(s, "select", r.pc + 1, "none")
        /\ UNCHANGED <<categories, products, call, ret, txn>>

(* db.commit(): the transaction's tables become the committed ones *)
Commit(s) ==
    LET r == request[s]
    IN  /\ Running(r)
        /\ Statement(r) = "commit"
        /\ UseConnection(s)
        /\ IF txn[s] # None
           THEN categories' = txn[s][1].categories /\ products' = txn[s][1].products
           ELSE UNCHANGED <<categories, products>>
        /\ txn' = [txn EXCEPT ![s] = None]
        /\ request' = Executed(s, "commit", r.pc + 1, "none")
        /\ UNCHANGED <<call, ret>>

(* db.commit() raises sqlite3.Error: the operation aborts with status 500  *)
(* and rolls nothing back.                                                 *)
CommitFails(s) ==
    LET r == request[s]
    IN  /\ Running(r)
        /\ Statement(r) = "commit"
        /\ UseConnection(s)
        /\ request' = [request EXCEPT ![s].used = @ \cup {g'[s][1]}, ![s].result = "aborted"]
        /\ UNCHANGED <<categories, products, call, ret, txn>>

(* The operation returns after its last statement *)
Return(s) ==
    LET r == request[s]
    IN  /\ Running(r)
        /\ Statement(r) = "return"
        /\ request' = [request EXCEPT ![s].result = "returned"]
        /\ UNCHANGED <<categories, products, call, ret, g, txn, connections>>

(* close_db at the end of the request: the scope's connection, if it has   *)
(* one, is closed, and what it has not committed is lost; the scope ends.  *)
close_db(s) ==
    /\ request[s].result \in {"returned", "aborted"}
    /\ connections' = IF g[s] # None THEN connections \ {g[s][1]} ELSE connections
    /\ txn' = [txn EXCEPT ![s] = None]
    /\ g' = [g EXCEPT ![s] = None]
    /\ request' = [request EXCEPT ![s] = NoRequest]
    /\ UNCHANGED <<categories, products, call, ret>>

NextRequests ==
    \/ \E s \in Scopes, data \in RequestCategoryData : Begin(s, "CategoriesTable.insert", 0, data)
    \/ \E s \in Scopes, id \in RequestCategoryIDs : Begin(s, "CategoriesTable.delete", id, <<>>)
    \/ \E s \in Scopes, data \in RequestProductData : Begin(s, "ProductsTable.insert", 0, data)
    \/ \E s \in Scopes, id \in RequestProductIDs, data \in RequestProductData : Begin(s, "ProductsTable.update", id, data)
    \/ \E s \in Scopes, id \in RequestProductIDs : Begin(s, "ProductsTable.delete", id, <<>>)
    \/ \E s \in Scopes : Select(s)
    \/ \E s \in Scopes : Write(s)
    \/ \E s \in Scopes : WriteLocked(s)
    \/ \E s \in Scopes : ReadBack(s)
    \/ \E s \in Scopes : Commit(s)
    \/ \E s \in Scopes : CommitFails(s)
    \/ \E s \in Scopes : Return(s)
    \/ \E s \in Scopes : close_db(s)

SpecRequests == Init /\ [][NextRequests]_vars

(* C14: when the statements of two requests interleave, each request on    *)
(* its own connection, every committed product row still references a      *)
(* committed category row: none references a category that was deleted.    *)
C14_ReferentialIntegrityInterleaved == {p.CategoryID : p \in products} \subseteq {c.CategoryID : c \in categories}

(* The connections the scopes hold *)
Held == {g[s][1] : s \in {t \in Scopes : g[t] # None}}

(* Scope s ends in this step *)
ScopeEnds(s) == request[s] # NoRequest /\ request'[s] = NoRequest

(* C12: in a request scope get_db opens the connection on its first call   *)
(* and every later call returns that same connection, so a scope never     *)
(* uses more than one; close_db closes the scope's connection when it has  *)
(* one and does nothing when it has none; no connection belongs to two     *)
(* scopes, and the open connections are exactly the ones the scopes hold.  *)
C12_ConnectionPerScope ==
    [][/\ \A s \in Scopes :
            /\ Cardinality(request'[s].used) <= 1
            /\ request'[s].used = {} => (g[s] = None => g'[s] = None)
            /\ request'[s].used # {} => g'[s] # None /\ request'[s].used = {g'[s][1]}
            /\ g[s] # None /\ ~ScopeEnds(s) => g'[s] = g[s]
            /\ g[s] = None /\ g'[s] # None => g'[s][1] \notin connections
            /\ ScopeEnds(s) /\ g[s] # None => g'[s] = None /\ connections' = connections \ {g[s][1]}
            /\ ScopeEnds(s) /\ g[s] = None => g' = g /\ connections' = connections
       /\ \A s, t \in Scopes : s # t /\ g'[s] # None => g'[s] # g'[t]
       /\ connections' = {g'[s][1] : s \in {t \in Scopes : g'[t] # None}}]_vars

(* A request has run its write and its commit on the connection its first  *)
(* SELECT opened, while the other scope holds a connection of its own      *)
C12_Witness ==
    \E s, t \in Scopes :
        /\ s # t
        /\ Len(request[s].done) >= 3 /\ request[s].done[1] = "select" /\ request[s].done[Len(request[s].done)] = "commit"
        /\ Cardinality(request[s].used) = 1 /\ g[s] # None
        /\ g[t] # None /\ g[t] # g[s]
        /\ Held = connections

(* A scope ends without ever having called get_db: close_db finds no       *)
(* connection                                                              *)
C12_WitnessNoConnection == \E s \in Scopes : request[s].result = "returned" /\ request[s].used = {} /\ g[s] = None

(* The positions of a kind of statement among the ones a request has run *)
Positions(done, kind) == {i \in 1..Len(done) : done[i] = kind}

Ended(r) == r.result \in {"returned", "aborted"}

(* C11 as stated: once an operation has run its write statement, the next  *)
(* statement on its connection is the commit; no operation returns or      *)
(* aborts with an uncommitted write pending; no transaction holds more     *)
(* than one write.                                                         *)
C11_CommitNextAfterWrite ==
    \A s \in Scopes :
        LET done == request[s].done
        IN  /\ \A i \in Positions(done, "write") : i < Len(done) => done[i + 1] = "commit"
            /\ Ended(request[s]) => txn[s] = None
            /\ Cardinality(Positions(done, "write")) <= 1

(* C11 amended: an operation runs at most one write statement and at most  *)
(* one commit; after the write the next statement on the connection is the *)
(* commit for the deletes, and for the inserts and the update it is the    *)
(* SELECT that reads the written row back, and the commit comes right      *)
(* after that; nothing runs after the commit.  The write is pending        *)
(* exactly from the write statement to the commit, so an operation that    *)
(* returns leaves none pending; an operation that aborts after its write   *)
(* has not committed it, and the committed tables change in no other step  *)
(* than a commit.                                                          *)
C11_CommitAfterReadBack ==
    [][/\ \A s \in Scopes :
            LET r == request'[s]
                done == r.done
                reads == IF r.op \in {"CategoriesTable.delete", "ProductsTable.delete"} THEN 0 ELSE 1
            IN  /\ Cardinality(Positions(done, "write")) <= 1
                /\ Cardinality(Positions(done, "commit")) <= 1
                /\ \A i \in Positions(done, "write") :
                      /\ \A j \in (i + 1)..Len(done) : j <= i + reads => done[j] = "select"
                      /\ \A j \in (i + 1)..Len(done) : j = i + reads + 1 => done[j] = "commit"
                      /\ Len(done) <= i + reads + 1
                /\ \A i \in Positions(done, "commit") : i = Len(done) /\ Positions(done, "write") # {}
                /\ txn'[s] # None <=> Positions(done, "write") # {} /\ Positions(done, "commit") = {}
                /\ r.result = "returned" => txn'[s] = None
                /\ r.result = "returned" /\ Positions(done, "write") # {} => Positions(done, "commit") # {}
       /\ <<categories, products>>' # <<categories, products>> =>
              \E s \in Scopes : /\ txn[s] # None /\ txn'[s] = None
                                /\ request'[s].done = Append(request[s].done, "commit")
                                /\ categories' = txn[s][1].categories /\ products' = txn[s][1].products]_vars

(* An insert or an update has returned after its write, the SELECT that    *)
(* reads the row back and its commit, and the row is committed             *)
C11_Witness ==
    \E s \in Scopes :
        LET done == request[s].done
        IN  /\ request[s].result = "returned"
            /\ Len(done) >= 3
            /\ SubSeq(done, Len(done) - 2, Len(done)) = <<"write", "select", "commit">>
            /\ txn[s] = None
            /\ categories \cup products # {}

(* An operation has aborted at its commit and its write is still pending   *)
C11_WitnessAborted == \E s \in Scopes : request[s].result = "aborted" /\ txn[s] # None

====
